---- MODULE Spec2Model ----
(***************************************************************************)
(* Model of package sem: a semantic-version parser (New), its formatter    *)
(* (Version.String) and the precedence test (Version.AtLeast).             *)
(*                                                                         *)
(* A Go string is a sequence of one-character strings; the model uses     *)
(* ASCII text only, so a byte index and a rune index coincide.             *)
(***************************************************************************)
EXTENDS Integers, Sequences, FiniteSets, TLC

(***************************************************************************)
(* Bytes.                                                                  *)
(***************************************************************************)
DigitChars == <<"0", "1", "2", "3", "4", "5", "6", "7", "8", "9">>

UpperChars ==
    <<"A", "B", "C", "D", "E", "F", "G", "H", "I", "J", "K", "L", "M",
      "N", "O", "P", "Q", "R", "S", "T", "U", "V", "W", "X", "Y", "Z">>

LowerChars ==
    <<"a", "b", "c", "d", "e", "f", "g", "h", "i", "j", "k", "l", "m",
      "n", "o", "p", "q", "r", "s", "t", "u", "v", "w", "x", "y", "z">>

IndexIn(seq, c) == CHOOSE i \in 1..Len(seq) : seq[i] = c

InSeq(seq, c) == \E i \in 1..Len(seq) : seq[i] = c

\* The code point of a character (the value the rune comparisons use).
Ord(c) ==
    CASE c = "$" -> 36
      [] c = "+" -> 43
      [] c = "-" -> 45
      [] c = "." -> 46
      [] InSeq(DigitChars, c) -> 47 + IndexIn(DigitChars, c)
      [] InSeq(UpperChars, c) -> 64 + IndexIn(UpperChars, c)
      [] InSeq(LowerChars, c) -> 96 + IndexIn(LowerChars, c)

\* r < '0' || r > '9' negated.
IsDigit(r) == ~(Ord(r) < Ord("0") \/ Ord(r) > Ord("9"))

\* The character test of the meta and prerelease loops, negated.
IsAllowed(r) ==
    ~(  (Ord(r) < Ord("0") \/ Ord(r) > Ord("9"))
     /\ (Ord(r) < Ord("a") \/ Ord(r) > Ord("z"))
     /\ (Ord(r) < Ord("A") \/ Ord(r) > Ord("Z"))
     /\ r # "-"
     /\ r # ".")

(***************************************************************************)
(* Library functions of strings and strconv, as the code uses them.        *)
(***************************************************************************)
Tail2(s, i) == SubSeq(s, i, Len(s))

\* Index (from 1) of the first element satisfying nothing but equality
\* with sep; 0 when there is none.
IndexOf(s, sep) ==
    IF \E i \in 1..Len(s) : s[i] = sep
    THEN CHOOSE i \in 1..Len(s) : s[i] = sep /\ \A j \in 1..(i - 1) : s[j] # sep
    ELSE 0

\* strings.Split(s, sep) for a one-character sep: always at least one piece.
RECURSIVE Split(_, _)
Split(s, sep) ==
    LET i == IndexOf(s, sep)
    IN  IF i = 0 THEN <<s>>
        ELSE <<SubSeq(s, 1, i - 1)>> \o Split(Tail2(s, i + 1), sep)

\* strings.Join(elems, sep): "" for no element.
RECURSIVE Join(_, _)
Join(elems, sep) ==
    IF Len(elems) = 0 THEN <<>>
    ELSE IF Len(elems) = 1 THEN elems[1]
    ELSE elems[1] \o sep \o Join(Tail(elems), sep)

\* Lexicographic byte order of Go's string < operator.
RECURSIVE StrLess(_, _)
StrLess(a, b) ==
    IF Len(b) = 0 THEN FALSE
    ELSE IF Len(a) = 0 THEN TRUE
    ELSE IF Ord(a[1]) < Ord(b[1]) THEN TRUE
    ELSE IF Ord(a[1]) > Ord(b[1]) THEN FALSE
    ELSE StrLess(Tail(a), Tail(b))

\* Decimal digits without leading zeros (at least one digit is kept).
RECURSIVE StripZeros(_)
StripZeros(d) ==
    IF Len(d) > 1 /\ d[1] = "0" THEN StripZeros(Tail(d)) ELSE d

\* The digits of the largest magnitude an int (64 bit) holds, by sign.
MaxIntDigits(neg) ==
    <<"9", "2", "2", "3", "3", "7", "2", "0", "3", "6", "8", "5", "4", "7",
      "7", "5", "8", "0">> \o (IF neg THEN <<"8">> ELSE <<"7">>)

\* Whether the magnitude written by the digits d exceeds the int range.
OutOfRange(d, neg) ==
    LET m == StripZeros(d)
        lim == MaxIntDigits(neg)
    IN  \/ Len(m) > Len(lim)
        \/ Len(m) = Len(lim) /\ StrLess(lim, m)

\* The value of a digit string.  The texts of this model are either at most
\* two digits long or beyond the range of int, so every value computed here
\* is small.
RECURSIVE DigitsValue(_, _)
DigitsValue(d, acc) ==
    IF Len(d) = 0 THEN acc
    ELSE DigitsValue(Tail(d), acc * 10 + (Ord(d[1]) - Ord("0")))

\* strconv.Atoi: an optional sign, then one or more decimal digits, within
\* the range of int.  err is "nil", "ErrSyntax" or "ErrRange".
Atoi(s) ==
    LET signed == Len(s) > 0 /\ (s[1] = "-" \/ s[1] = "+")
        neg == Len(s) > 0 /\ s[1] = "-"
        d == IF signed THEN Tail(s) ELSE s
    IN  IF Len(d) = 0 \/ \E i \in 1..Len(d) : ~InSeq(DigitChars, d[i])
        THEN [err |-> "ErrSyntax", val |-> 0]
        ELSE IF OutOfRange(d, neg)
        THEN [err |-> "ErrRange", val |-> 0]
        ELSE [err |-> "nil",
              val |-> IF neg THEN 0 - DigitsValue(StripZeros(d), 0)
                      ELSE DigitsValue(StripZeros(d), 0)]

\* The %d verb of fmt.Sprintf.
RECURSIVE Itoa(_)
Itoa(n) ==
    IF n < 0 THEN <<"-">> \o Itoa(0 - n)
    ELSE IF n < 10 THEN <<DigitChars[n + 1]>>
    ELSE Itoa(n \div 10) \o <<DigitChars[(n % 10) + 1]>>

(***************************************************************************)
(* type Version, type ParseError and the results of New.                   *)
(***************************************************************************)
\* &Version{}: the zero value New starts from.
ZeroVersion == [Normal |-> <<0, 0, 0>>, Prerelease |-> <<>>, Meta |-> <<>>]

\* (v, nil)
Ok(v) == [err |-> "nil", T |-> "", R |-> "", P |-> 0, v |-> v]

\* (nil, ErrMultiMeta), (nil, ErrBadSemVer), (nil, err) of strconv.Atoi
Fail(e) == [err |-> e, T |-> "", R |-> "", P |-> 0, v |-> ZeroVersion]

\* (nil, ParseError{T, R, P})
ParseError(t, r, p) ==
    [err |-> "ParseError", T |-> t, R |-> r, P |-> p, v |-> ZeroVersion]

\* Index (from 1) of the first non-digit character of s; 0 if none.
FirstNonDigit(s) ==
    IF \E i \in 1..Len(s) : ~IsDigit(s[i])
    THEN CHOOSE i \in 1..Len(s) :
            ~IsDigit(s[i]) /\ \A j \in 1..(i - 1) : IsDigit(s[j])
    ELSE 0

\* Index (from 1) of the first character of s outside [0-9A-Za-z-.]; 0 if
\* none.
FirstNotAllowed(s) ==
    IF \E i \in 1..Len(s) : ~IsAllowed(s[i])
    THEN CHOOSE i \in 1..Len(s) :
            ~IsAllowed(s[i]) /\ \A j \in 1..(i - 1) : IsAllowed(s[j])
    ELSE 0

\* TooManyMeta with a third case that falls through to the parse.
TooManyMetaThree(n) == n # 1 /\ n # 2 /\ n # 3

\* case 1, case 2, default of the switch on len(meta): TRUE for default.
TooManyMeta(n) == n # 1 /\ n # 2

\* The loop over normal: segment i with the offset of its first character.
RECURSIVE NormalLoop(_, _, _, _)
NormalLoop(normal, i, offset, v) ==
    IF i > Len(normal) THEN Ok(v)
    ELSE LET versionStr == normal[i]
             j == FirstNonDigit(versionStr)
             version == Atoi(versionStr)
         IN  IF j # 0 THEN ParseError("normal", versionStr[j], offset + (j - 1))
             ELSE IF version.err # "nil" THEN Fail(version.err)
             ELSE NormalLoop(normal, i + 1, offset + Len(versionStr) + 1,
                             [v EXCEPT !.Normal[i] = version.val])

\* The prerelease section of New.
ParsePrerelease(longVersion, v) ==
    LET pre == Join(Tail(longVersion), <<"-">>)
        i == FirstNotAllowed(pre)
    IN  IF pre = <<>> THEN Ok(v)
        ELSE IF i # 0 THEN ParseError("prerelease", pre[i], i - 1)
        ELSE Ok([v EXCEPT !.Prerelease = Split(pre, ".")])

\* The normal section of New, then the prerelease section.
ParseNormal(first, v) ==
    LET longVersion == Split(first, "-")
        normal == Split(longVersion[1], ".")
        r == NormalLoop(normal, 1, 0, v)
    IN  IF Len(normal) # 3 THEN Fail("ErrBadSemVer")
        ELSE IF r.err # "nil" THEN r
        ELSE ParsePrerelease(longVersion, r.v)

\* func New(s string) (*Version, error)
New(s) ==
    LET meta == Split(s, "+")
        i == FirstNotAllowed(meta[2])
    IN  IF TooManyMeta(Len(meta)) THEN Fail("ErrMultiMeta")
        ELSE IF Len(meta) = 1 THEN ParseNormal(meta[1], ZeroVersion)
        ELSE IF i # 0 THEN ParseError("meta", meta[2][i], i - 1)
        ELSE ParseNormal(meta[1], [ZeroVersion EXCEPT !.Meta = meta[2]])

\* String with the prerelease identifiers joined by '-' instead of '.'.
StringDash(v) ==
    LET s == Itoa(v.Normal[1]) \o <<".">> \o Itoa(v.Normal[2]) \o <<".">>
                \o Itoa(v.Normal[3])
        pre == Join(v.Prerelease, <<"-">>)
        s1 == IF pre # <<>> THEN s \o <<"-">> \o pre ELSE s
    IN  IF v.Meta # <<>> THEN s1 \o <<"+">> \o v.Meta ELSE s1

\* func (v *Version) String() string
String(v) ==
    LET s == Itoa(v.Normal[1]) \o <<".">> \o Itoa(v.Normal[2]) \o <<".">>
                \o Itoa(v.Normal[3])
        pre == Join(v.Prerelease, <<".">>)
        s1 == IF pre # <<>> THEN s \o <<"-">> \o pre ELSE s
    IN  IF v.Meta # <<>> THEN s1 \o <<"+">> \o v.Meta ELSE s1


(***************************************************************************)
(* func (v *Version) AtLeast(min *Version) bool                            *)
(***************************************************************************)
\* The loop over v.Normal: "less", "more", or "equal" when it falls through.
RECURSIVE NormalCmp(_, _, _)
NormalCmp(vNormal, minNormal, i) ==
    IF i > Len(vNormal) THEN "equal"
    ELSE IF vNormal[i] < minNormal[i] THEN "less"
    ELSE IF vNormal[i] > minNormal[i] THEN "more"
    ELSE NormalCmp(vNormal, minNormal, i + 1)

\* ReleaseRule without its two tests: every pair goes to the loop.
ReleaseRuleNone(vLen, minLen) == "loop"

\* The two tests on the prerelease lengths: "atLeast", "less", or "loop".
ReleaseRule(vLen, minLen) ==
    IF vLen = 0 /\ minLen > 0 THEN "atLeast"
    ELSE IF vLen > 0 /\ minLen = 0 THEN "less"
    ELSE "loop"

\* CompareIdent with >= in place of > in the string comparison.
CompareIdentGe(vId, minId) ==
    LET minA == Atoi(minId)
        vA == Atoi(vId)
        minInt == minA.err = "nil"
        vInt == vA.err = "nil"
    IN  IF minInt /\ vInt
        THEN IF vA.val > minA.val THEN "atLeast"
             ELSE IF vA.val < minA.val THEN "less"
             ELSE "continue"
        ELSE IF minInt THEN "atLeast"
        ELSE IF vInt THEN "less"
        ELSE IF ~StrLess(vId, minId) THEN "atLeast"
        ELSE "less"

\* CompareIdent returning vIsAtLeastMin in both mixed cases.
CompareIdentMixed(vId, minId) ==
    LET minA == Atoi(minId)
        vA == Atoi(vId)
        minInt == minA.err = "nil"
        vInt == vA.err = "nil"
    IN  IF minInt /\ vInt
        THEN IF vA.val > minA.val THEN "atLeast"
             ELSE IF vA.val < minA.val THEN "less"
             ELSE "continue"
        ELSE IF minInt THEN "atLeast"
        ELSE IF vInt THEN "atLeast"
        ELSE IF StrLess(minId, vId) THEN "atLeast"
        ELSE IF StrLess(vId, minId) THEN "less"
        ELSE "continue"

\* One pass of the loop body on the identifiers at the same index:
\* "atLeast", "less", or "continue" for the next index.
CompareIdent(vId, minId) ==
    LET minA == Atoi(minId)
        vA == Atoi(vId)
        minInt == minA.err = "nil"
        vInt == vA.err = "nil"
    IN  IF minInt /\ vInt
        THEN IF vA.val > minA.val THEN "atLeast"
             ELSE IF vA.val < minA.val THEN "less"
             ELSE "continue"
        ELSE IF minInt THEN "atLeast"
        ELSE IF vInt THEN "less"
        ELSE IF StrLess(minId, vId) THEN "atLeast"
        ELSE IF StrLess(vId, minId) THEN "less"
        ELSE "continue"

\* The return after the loop, with the metadata breaking the tie.
LoopDoneMeta(v, min) == ~StrLess(v.Meta, min.Meta)

\* The return after the loop.
LoopDone(v, min) == TRUE

\* for i := range min.Prerelease, with i counted from 1.
RECURSIVE PrereleaseLoop(_, _, _)
PrereleaseLoop(v, min, i) ==
    IF i > Len(min.Prerelease) THEN LoopDone(v, min)
    ELSE IF Len(v.Prerelease) <= i - 1 THEN FALSE
    ELSE LET c == CompareIdent(v.Prerelease[i], min.Prerelease[i])
         IN  IF c = "continue" THEN PrereleaseLoop(v, min, i + 1)
             ELSE c = "atLeast"

AtLeast(v, min) ==
    LET n == NormalCmp(v.Normal, min.Normal, 1)
        r == ReleaseRule(Len(v.Prerelease), Len(min.Prerelease))
    IN  IF n = "less" THEN FALSE
        ELSE IF n = "more" THEN TRUE
        ELSE IF r = "atLeast" THEN TRUE
        ELSE IF r = "less" THEN FALSE
        ELSE PrereleaseLoop(v, min, 1)

(***************************************************************************)
(* Input domains.                                                          *)
(***************************************************************************)
RECURSIVE SeqsUpTo(_, _)
SeqsUpTo(S, n) ==
    IF n = 0 THEN {<<>>}
    ELSE LET shorter == SeqsUpTo(S, n - 1)
         IN  shorter \cup
             {Append(q, x) : q \in {p \in shorter : Len(p) = n - 1}, x \in S}

RECURSIVE Concat(_)
Concat(parts) ==
    IF Len(parts) = 0 THEN <<>> ELSE parts[1] \o Concat(Tail(parts))

\* Longest prerelease list of a Version handed to AtLeast.
MaxPreLen == 2

\* Most dot-separated segments in the normal part of an input of New.
MaxSegs == 3

\* Most '+' characters in an input of New.
MaxMetas == 2

\* Twenty nines: digits only, and too large for an int.
Big == [i \in 1..20 |-> "9"]

\* Texts between the dots of the normal part: empty, a number, a number
\* with a leading zero, a number followed by a letter, a number out of range.
Segs == {<<>>, <<"1">>, <<"0", "2">>, <<"1", "a">>, Big}

\* What follows the normal part up to the first '+': nothing, or a '-' and
\* a prerelease text.
PreTexts ==
    {<<>>,
     <<"-">>,
     <<"-", "r", "c", ".", "1">>,
     <<"-", "a", ".", ".", "b">>,
     <<"-", "a", "-", "1">>,
     <<"-", "-", "1">>,
     <<"-", "b", "$">>}

\* Texts after a '+'.
MetaTexts == {<<>>, <<"m", ".", "1">>, <<"b", "$">>}

\* The strings handed to New.
Inputs ==
    {Join(segs, <<".">>) \o pre \o Concat([i \in 1..Len(ms) |-> <<"+">> \o ms[i]]) :
        segs \in SeqsUpTo(Segs, MaxSegs) \ {<<>>},
        pre \in PreTexts,
        ms \in SeqsUpTo(MetaTexts, MaxMetas)}

\* Prerelease identifiers of a Version handed to AtLeast: a number, a
\* hyphenated number, and two alphabetic identifiers.
Ids == {<<"1">>, <<"-", "1">>, <<"a">>, <<"b">>}

Normals == {<<1, 0, 0>>, <<1, 0, 1>>, <<0, 2, 0>>}

Metas == {<<>>, <<"m">>}

\* The Versions handed to AtLeast.
Versions ==
    {[Normal |-> n, Prerelease |-> p, Meta |-> m] :
        n \in Normals, p \in SeqsUpTo(Ids, MaxPreLen), m \in Metas}

\* Versions without metadata on two normal versions, for comparisons
\* against every third Version.
BareVersions ==
    {w \in Versions : w.Meta = <<>> /\ w.Normal \in {<<1, 0, 0>>, <<0, 2, 0>>}}

(***************************************************************************)
(* State and steps.                                                        *)
(*   s        the argument of New                                          *)
(*   res      what New(s) returned                                         *)
(*   str      what res.v.String() returned                                 *)
(*   res2     what New(str) returned                                       *)
(*   v, min   the receiver and the argument of AtLeast                     *)
(*   atLeast  what v.AtLeast(min) returned                                 *)
(*   pc       how far the calls have got                                   *)
(***************************************************************************)
VARIABLES pc, s, res, str, res2, v, min, atLeast

vars == <<pc, s, res, str, res2, v, min, atLeast>>

Unset == Fail("unset")

\* A caller about to parse s.
Init ==
    /\ pc = "start"
    /\ s \in Inputs
    /\ res = Unset
    /\ str = <<>>
    /\ res2 = Unset
    /\ v = ZeroVersion
    /\ min = ZeroVersion
    /\ atLeast = FALSE

\* res := New(s)
Parse ==
    /\ pc = "start"
    /\ res' = New(s)
    /\ pc' = "parsed"
    /\ UNCHANGED <<s, str, res2, v, min, atLeast>>

\* str := res.v.String(), for a Version New returned
Format ==
    /\ pc = "parsed"
    /\ res.err = "nil"
    /\ str' = String(res.v)
    /\ pc' = "formatted"
    /\ UNCHANGED <<s, res, res2, v, min, atLeast>>

\* res2 := New(str)
Reparse ==
    /\ pc = "formatted"
    /\ res2' = New(str)
    /\ pc' = "reparsed"
    /\ UNCHANGED <<s, res, str, v, min, atLeast>>

Next == Parse \/ Format \/ Reparse

Spec == Init /\ [][Next]_vars

\* A caller holding a Version v, about to compare it.
InitCmp ==
    /\ pc = "start"
    /\ v \in Versions
    /\ min = ZeroVersion
    /\ atLeast = FALSE
    /\ s = <<>>
    /\ res = Unset
    /\ str = <<>>
    /\ res2 = Unset

\* atLeast := v.AtLeast(min)
Compare ==
    /\ pc = "start"
    /\ \E m \in Versions :
          /\ min' = m
          /\ atLeast' = AtLeast(v, m)
    /\ pc' = "compared"
    /\ UNCHANGED <<s, res, str, res2, v>>

NextCmp == Compare

SpecCmp == InitCmp /\ [][NextCmp]_vars

\* A caller holding a Version v without metadata.
InitBare ==
    /\ pc = "start"
    /\ v \in BareVersions
    /\ min = ZeroVersion
    /\ atLeast = FALSE
    /\ s = <<>>
    /\ res = Unset
    /\ str = <<>>
    /\ res2 = Unset

\* atLeast := v.AtLeast(min), min without metadata
CompareBare ==
    /\ pc = "start"
    /\ \E m \in BareVersions :
          /\ min' = m
          /\ atLeast' = AtLeast(v, m)
    /\ pc' = "compared"
    /\ UNCHANGED <<s, res, str, res2, v>>

NextBare == CompareBare

SpecBare == InitBare /\ [][NextBare]_vars


(***************************************************************************)
(* Vocabulary of the properties, read off the text of the input.           *)
(***************************************************************************)
CountOf(t, c) == Cardinality({i \in 1..Len(t) : t[i] = c})

\* The text before the first c; all of t when c does not occur.
Before(t, c) ==
    IF CountOf(t, c) = 0 THEN t
    ELSE SubSeq(t, 1, (CHOOSE i \in 1..Len(t) :
                          t[i] = c /\ \A j \in 1..(i - 1) : t[j] # c) - 1)

\* The text after the first c; empty when c does not occur.
After(t, c) == SubSeq(t, Len(Before(t, c)) + 2, Len(t))

DigitChar(c) == c \in {DigitChars[i] : i \in 1..Len(DigitChars)}

LetterChar(c) ==
    \/ c \in {UpperChars[i] : i \in 1..Len(UpperChars)}
    \/ c \in {LowerChars[i] : i \in 1..Len(LowerChars)}

\* [0-9A-Za-z-]
IdentChar(c) == DigitChar(c) \/ LetterChar(c) \/ c = "-"

\* An identifier that is a non-negative integer: digits only.
Numeric(id) == Len(id) > 0 /\ \A i \in 1..Len(id) : DigitChar(id[i])

\* An identifier over [0-9A-Za-z-] with a letter or a hyphen in it.
Alphanumeric(id) ==
    /\ Len(id) > 0
    /\ \A i \in 1..Len(id) : IdentChar(id[i])
    /\ \E i \in 1..Len(id) : ~DigitChar(id[i])

\* The normal part of an input: the text before the first '-' of the text
\* before the first '+'.
NormalPart(t) == Before(Before(t, "+"), "-")

\* p is a proper prefix of q.
ProperPrefix(p, q) == Len(p) < Len(q) /\ SubSeq(q, 1, Len(p)) = p

(***************************************************************************)
(* Properties of New and String.                                           *)
(***************************************************************************)
\* C1: whenever New(s) succeeds with a Version, New of that Version's
\* String() succeeds too and returns an equal Version (same Normal, same
\* Prerelease, same Meta).
RoundTrip ==
    pc = "reparsed" => res2.err = "nil" /\ res2.v = res.v

\* C1 witness: a round trip of a Version with prerelease identifiers and
\* metadata whose String() is not the text it was parsed from.
RoundTripWitness ==
    /\ pc = "reparsed"
    /\ Len(res.v.Prerelease) > 1
    /\ res.v.Meta # <<>>
    /\ str # s

\* C4: an input with more than one '+' fails with ErrMultiMeta and yields
\* no Version, whatever else is wrong with it.
MultiMetaFirst ==
    (pc # "start" /\ CountOf(s, "+") > 1) => res = Fail("ErrMultiMeta")

\* C4 witness: New has rejected an input with two '+' that also has a bad
\* character in its metadata and too few normal segments.
MultiMetaFirstWitness ==
    /\ pc = "parsed"
    /\ CountOf(s, "+") = 2
    /\ CountOf(s, "$") > 0
    /\ CountOf(NormalPart(s), ".") < 2
    /\ res.err = "ErrMultiMeta"

\* The case of C6: at most one '+', valid metadata characters, a normal
\* part of exactly three segments, one of them with a non-digit character.
NormalCharCase ==
    /\ CountOf(s, "+") <= 1
    /\ \A i \in 1..Len(After(s, "+")) :
          IdentChar(After(s, "+")[i]) \/ After(s, "+")[i] = "."
    /\ CountOf(NormalPart(s), ".") = 2
    /\ \E i \in 1..Len(NormalPart(s)) :
          ~DigitChar(NormalPart(s)[i]) /\ NormalPart(s)[i] # "."

\* C6: in that case New fails with ParseError{T: "normal"}, R the first
\* non-digit character of the normal part and P its index in the normal
\* part, dots counted.
NormalCharError ==
    (pc # "start" /\ NormalCharCase) =>
        LET n == NormalPart(s)
            i == CHOOSE k \in 1..Len(n) :
                    /\ ~DigitChar(n[k]) /\ n[k] # "."
                    /\ \A j \in 1..(k - 1) : DigitChar(n[j]) \/ n[j] = "."
        IN  res = ParseError("normal", n[i], i - 1)

\* C9: every identifier of a Prerelease that New returned is a non-empty
\* string over [0-9A-Za-z-].
PrereleaseGrammar ==
    (pc # "start" /\ res.err = "nil") =>
        \A i \in 1..Len(res.v.Prerelease) :
            /\ Len(res.v.Prerelease[i]) > 0
            /\ \A k \in 1..Len(res.v.Prerelease[i]) :
                  IdentChar(res.v.Prerelease[i][k])

\* Every numeric segment of the normal part fits an int.
FitsInt(t) ==
    LET segs == Split(NormalPart(t), ".")
    IN  \A i \in 1..Len(segs) : Numeric(segs[i]) => ~OutOfRange(segs[i], FALSE)

\* C10: when the numeric normal segments fit an int, a failing New returns
\* ErrMultiMeta, ErrBadSemVer or a ParseError of section normal, prerelease
\* or meta, and never an error of the integer conversion.
ClosedTaxonomy ==
    (pc # "start" /\ FitsInt(s) /\ res.err # "nil") =>
        \/ res.err \in {"ErrMultiMeta", "ErrBadSemVer"}
        \/ res.err = "ParseError" /\ res.T \in {"normal", "prerelease", "meta"}

(***************************************************************************)
(* Properties of AtLeast.                                                  *)
(***************************************************************************)
\* C2: AtLeast is transitive: if v.AtLeast(min) and min.AtLeast(c) then
\* v.AtLeast(c), for every third Version c.
Transitivity ==
    (pc = "compared" /\ atLeast) =>
        \A c \in BareVersions : AtLeast(min, c) => AtLeast(v, c)

\* C2 witness: a chain through a release, a prerelease with an alphabetic
\* identifier and a longer prerelease with a numeric one.
TransitivityWitness ==
    /\ pc = "compared"
    /\ atLeast
    /\ v.Prerelease = <<>>
    /\ min.Prerelease = <<<<"a">>>>
    /\ AtLeast(min, [Normal |-> min.Normal,
                     Prerelease |-> <<<<"1">>, <<"b">>>>, Meta |-> <<>>])

\* C3: with equal Normal and identical identifiers before index i, a
\* numeric identifier of min against an alphanumeric one of v gives true,
\* and a numeric identifier of v against an alphanumeric one of min false.
NumericBelowAlphanumeric ==
    (pc = "compared" /\ v.Normal = min.Normal) =>
        \A i \in 1..Len(v.Prerelease) :
            (/\ i <= Len(min.Prerelease)
             /\ SubSeq(v.Prerelease, 1, i - 1) = SubSeq(min.Prerelease, 1, i - 1))
            =>
            /\ (Numeric(min.Prerelease[i]) /\ Alphanumeric(v.Prerelease[i]))
                  => atLeast
            /\ (Numeric(v.Prerelease[i]) /\ Alphanumeric(min.Prerelease[i]))
                  => ~atLeast

\* C5: with equal Normal, a release is at least any prerelease, a
\* prerelease is not at least a release, and a release is at least a release.
ReleaseBeatsPrerelease ==
    (pc = "compared" /\ v.Normal = min.Normal) =>
        /\ (Len(v.Prerelease) = 0 /\ Len(min.Prerelease) > 0) => atLeast
        /\ (Len(v.Prerelease) > 0 /\ Len(min.Prerelease) = 0) => ~atLeast
        /\ (Len(v.Prerelease) = 0 /\ Len(min.Prerelease) = 0) => atLeast

\* C5 witness: a release compared with a prerelease of the same Normal.
ReleaseBeatsPrereleaseWitness ==
    /\ pc = "compared"
    /\ v.Normal = min.Normal
    /\ Len(v.Prerelease) = 0
    /\ Len(min.Prerelease) > 0
    /\ atLeast

\* C7: the result does not depend on the Meta of either Version.
MetaIgnored ==
    pc = "compared" =>
        \A m1 \in Metas, m2 \in Metas :
            AtLeast([v EXCEPT !.Meta = m1], [min EXCEPT !.Meta = m2]) = atLeast

\* C7 witness: two Versions that differ in Meta only have been compared.
MetaIgnoredWitness ==
    /\ pc = "compared"
    /\ v.Normal = min.Normal
    /\ v.Prerelease = min.Prerelease
    /\ Len(v.Prerelease) > 0
    /\ StrLess(v.Meta, min.Meta)
    /\ atLeast

\* C8: with equal Normal and non-empty Prerelease, the longer of two lists
\* of which one is a proper prefix of the other is at least the shorter,
\* and the shorter is not at least the longer.
PrefixRule ==
    (/\ pc = "compared"
     /\ v.Normal = min.Normal
     /\ Len(v.Prerelease) > 0
     /\ Len(min.Prerelease) > 0) =>
        /\ ProperPrefix(min.Prerelease, v.Prerelease) => atLeast
        /\ ProperPrefix(v.Prerelease, min.Prerelease) => ~atLeast

\* C8 witness: a prerelease list compared with a longer one it is a prefix of.
PrefixRuleWitness ==
    /\ pc = "compared"
    /\ v.Normal = min.Normal
    /\ Len(v.Prerelease) > 0
    /\ ProperPrefix(v.Prerelease, min.Prerelease)
    /\ ~atLeast

====
